---- MODULE Spec2Model ----
(***************************************************************************)
(* msdf-atlasgen (main.cpp): the atlas assembly pipeline of run().         *)
(*                                                                         *)
(* State: the settings record cfg, the font (what FreeType would return    *)
(* per codepoint), the auto-height search state of run() (range, highest), *)
(* the position of run() (pc), and the artifacts run() has produced (out). *)
(*                                                                         *)
(* Idealisations, all stated where they are made:                          *)
(*  - glyph bounding boxes are integers in font units and the scaling      *)
(*    bbox * (max_char_height / maxheight) is computed over the rationals  *)
(*    (the code uses double and float);                                    *)
(*  - every retained glyph has bbox.height() > 0, so maxheight > 0 for a   *)
(*    non-empty character set;                                             *)
(*  - bin_pack_max_rect (binpacking.h) is not part of main.cpp; its        *)
(*    outcome is modelled from its contract (PackOutcomes);                *)
(*  - placement.x/y, the bitmaps and the pixel buffer are not modelled.    *)
(***************************************************************************)
EXTENDS Integers, Sequences, FiniteSets, TLC

\* size_t is modelled as an unsigned integer of WordBits bits.
WordBits == 4
Mod == 2^WordBits

\* Requested character heights and texture dimensions of realistic runs
\* range over 0..MaxDim, far below the overflow of size_t (2*MaxDim < Mod).
MaxDim == 7

\* Codepoints range over 0..MaxCodepoint.
MaxCodepoint == 3

Min(a, b) == IF a < b THEN a ELSE b
Max(a, b) == IF a > b THEN a ELSE b

\* ceil(n / d) for n >= 0, d > 0
CeilDiv(n, d) == (n + d - 1) \div d

VARIABLES
    cfg,        \* settings
    font,       \* codepoint -> what FT_Get_Char_Index / loadGlyph / bounds give
    pc,         \* position of run(): "run", "loop", "final", "done"
    range,      \* std::pair range of run(): [first, second]
    highest,    \* size_t highest of run()
    memo,       \* the calls bin_pack_max_rect has answered: [height, rects, ok]
    lastRects,  \* the rectangles of the latest build_atlas call
    requested,  \* cfg.max_char_height as parse_options left it
    out         \* what run() has printed and written

vars == <<cfg, font, pc, range, highest, memo, lastRects, requested, out>>

----------------------------------------------------------------------------
(* The font: FT_Get_Char_Index, loadGlyph and bounds per codepoint.        *)

Absent == [present |-> FALSE, w |-> 0, h |-> 0]
\* a glyph without extent (bounds() leaves width <= 0), such as the space
Blank  == [present |-> TRUE, w |-> 0, h |-> 0]
Wide   == [present |-> TRUE, w |-> 2, h |-> 1]
Tall   == [present |-> TRUE, w |-> 1, h |-> 2]

Codepoints == 0..MaxCodepoint

\* The glyph at codepoint c when the font has one: wide at even codepoints,
\* tall at odd ones.
ShapeAt(c) == IF c % 2 = 0 THEN Wide ELSE Tall

FontOf(present, blank) ==
    [c \in Codepoints |-> IF c \in blank THEN Blank
                          ELSE IF c \in present THEN ShapeAt(c)
                          ELSE Absent]

----------------------------------------------------------------------------
(* read_shapes                                                             *)

\* One codepoint of one range: lines 297-305.
ReadOne(c) ==
    IF c \in DOMAIN font /\ font[c].present /\ font[c].w > 0
    THEN << [codepoint |-> c, bbox_w |-> font[c].w, bbox_h |-> font[c].h] >>
    ELSE << >>

RECURSIVE ReadRange(_, _)
\* for( size_t i = range.begin; i<range.end; ++i )
ReadRange(i, end) ==
    IF i < end THEN ReadOne(i) \o ReadRange(i + 1, end) ELSE << >>

RECURSIVE ReadRanges(_)
\* for( auto& range : cfg.codepoint_ranges )
ReadRanges(ranges) ==
    IF ranges = << >> THEN << >>
    ELSE ReadRange(Head(ranges).begin, Head(ranges).end) \o ReadRanges(Tail(ranges))

read_shapes == ReadRanges(cfg.codepoint_ranges)

----------------------------------------------------------------------------
(* build_charset                                                           *)

RECURSIVE MaxHeightOf(_)
MaxHeightOf(chars) ==
    IF chars = << >> THEN 0
    ELSE Max(Head(chars).bbox_h, MaxHeightOf(Tail(chars)))

\* ceil( extent * scaling ) + 2*cfg.smoothpixels, with
\* scaling = max_char_height / maxheight: lines 321-331.
PlacementSize(extent, height, maxheight) ==
    CeilDiv(extent * height, maxheight) + 2 * cfg.smoothpixels

\* The character set at nominal height `height`: each char_info with its
\* placement width and height set (lines 323-336).
build_charset(height) ==
    LET chars == read_shapes
        maxheight == MaxHeightOf(chars)
    IN  [i \in 1..Len(chars) |->
            [codepoint |-> chars[i].codepoint,
             bbox_w    |-> chars[i].bbox_w,
             bbox_h    |-> chars[i].bbox_h,
             width     |-> PlacementSize(chars[i].bbox_w, height, maxheight),
             height    |-> PlacementSize(chars[i].bbox_h, height, maxheight)]]

\* placerefs of build_atlas: the placement boxes, in order.
Placerefs(charinfos) ==
    [i \in 1..Len(charinfos) |-> [w |-> charinfos[i].width, h |-> charinfos[i].height]]

----------------------------------------------------------------------------
(* build_atlas and bin_pack_max_rect                                       *)

\* A rectangle alone fits the texture with the spacing kept to the border.
FitsAlone(r) ==
    /\ r.w + 2 * cfg.spacing <= cfg.tex_dims.width
    /\ r.h + 2 * cfg.spacing <= cfg.tex_dims.height

RECURSIVE TotalArea(_)
TotalArea(rects) ==
    IF rects = << >> THEN 0
    ELSE Head(rects).w * Head(rects).h + TotalArea(Tail(rects))

\* Rectangles placed without overlap cover no more than the texture.
AreaFits(rects) == TotalArea(rects) <= cfg.tex_dims.width * cfg.tex_dims.height

\* What bin_pack_max_rect may return for `rects`. Under its contract: true
\* for no rectangle at all, false when some rectangle cannot be placed even
\* alone or the rectangles cover more than the texture, true for a single
\* rectangle that fits, and the heuristic's choice otherwise; the same input
\* always gets the same answer (memo).
PackOutcomes(rects) ==
    IF \E m \in memo : m.rects = rects
    THEN {m.ok : m \in {n \in memo : n.rects = rects}}
    ELSE IF rects = << >> THEN {TRUE}
    ELSE IF \E i \in 1..Len(rects) : ~FitsAlone(rects[i]) THEN {FALSE}
    ELSE IF ~AreaFits(rects) THEN {FALSE}
    ELSE IF Len(rects) = 1 THEN {TRUE}
    ELSE BOOLEAN

\* memo with one more answer.
Answered(height, rects, ok) ==
    memo \cup {[height |-> height, rects |-> rects, ok |-> ok]}

----------------------------------------------------------------------------
(* write_description                                                       *)

RECURSIVE InsertByCodepoint(_, _)
InsertByCodepoint(ch, sorted) ==
    IF sorted = << >> THEN << ch >>
    ELSE IF ch.codepoint < Head(sorted).codepoint THEN << ch >> \o sorted
    ELSE << Head(sorted) >> \o InsertByCodepoint(ch, Tail(sorted))

RECURSIVE SortByCodepoint(_)
\* std::sort( ..., a.codepoint < b.codepoint ): line 124. Elements of equal
\* codepoint are equal records, so the order among them does not show.
SortByCodepoint(chars) ==
    IF chars = << >> THEN << >>
    ELSE InsertByCodepoint(Head(chars), SortByCodepoint(Tail(chars)))

RECURSIVE SpanEnd(_, _)
\* The inner for of line 159, indices from 0 as in the code.
SpanEnd(chars, span_end) ==
    IF span_end < Len(chars)
       /\ chars[span_end + 1].codepoint = chars[span_end].codepoint + 1
    THEN SpanEnd(chars, span_end + 1)
    ELSE span_end

\* A faulty variant of NextCumulative: one entry per span.
NextCumulativeByOne(cumulative, span_size) == cumulative + 1

\* cumulative += span_size: line 168.
NextCumulative(cumulative, span_size) == cumulative + span_size

RECURSIVE WriteSpans(_, _, _)
\* The span loop, lines 157-170.
WriteSpans(chars, span_begin, cumulative) ==
    IF span_begin < Len(chars)
    THEN LET span_end  == SpanEnd(chars, span_begin + 1)
             span_size == span_end - span_begin
             start     == chars[span_begin + 1].codepoint
         IN  << [start |-> start, end |-> start + span_size, cumulative |-> cumulative] >>
             \o WriteSpans(chars, span_end, NextCumulative(cumulative, span_size))
    ELSE << >>

\* "{ 0, 0, 0, 0, 0, 0, 0, 0, 0 },": line 190. `from` records which char_info
\* a line was printed from (-1: none); it is not part of the file.
Placeholder == [from |-> -1, atlas_w |-> 0, atlas_h |-> 0, bbox_w |-> 0, bbox_h |-> 0]

\* The line of one char_info: lines 195-206.
GlyphEntry(info) ==
    [from |-> info.codepoint, atlas_w |-> info.width, atlas_h |-> info.height,
     bbox_w |-> info.bbox_w, bbox_h |-> info.bbox_h]

RECURSIVE Placeholders(_, _)
\* while( last_written < info.codepoint ): lines 189-192.
Placeholders(last_written, codepoint) ==
    IF last_written < codepoint
    THEN << Placeholder >> \o Placeholders(last_written + 1, codepoint)
    ELSE << >>

RECURSIVE WriteInfos(_, _, _, _)
\* The glyph loop, lines 187-209: the lines written and last_written after it.
WriteInfos(chars, i, last_written, written) ==
    IF i > Len(chars) THEN [entries |-> written, last_written |-> last_written]
    ELSE LET info == chars[i]
             fill == IF cfg.use_spans THEN << >>
                     ELSE Placeholders(last_written, info.codepoint)
         IN  WriteInfos(chars, i + 1, info.codepoint + 1,
                        written \o fill \o << GlyphEntry(info) >>)

\* bitmap_chars_count: line 212.
CharsCount(last_written) == last_written + 1

\* The description file of a non-empty character set.
write_description(charinfos) ==
    LET sorted == SortByCodepoint(charinfos)
        infos  == WriteInfos(sorted, 1, 0, << >>)
    IN  [spans   |-> IF cfg.use_spans THEN WriteSpans(sorted, 0, 0) ELSE << >>,
         entries |-> infos.entries,
         bitmap_chars_count |-> CharsCount(infos.last_written)]

NoDescription == [spans |-> << >>, entries |-> << >>, bitmap_chars_count |-> 0]

----------------------------------------------------------------------------
(* run                                                                     *)

\* A faulty variant of ProbedHeight: the probe tries the lower end of the range.
ProbedHeightLow(r) == r.first

\* cfg.max_char_height = range.second: the height a probe tries, line 380.
ProbedHeight(r) == r.second

\* A faulty variant of GrowHigh: the bound is highest, not highest-1.
GrowHighToHighest(first, high) == Min((first * 2) % Mod, high)

\* range.second = min( range.first * 2, highest-1 ): line 386, on size_t.
GrowHigh(first, high) == Min((first * 2) % Mod, (high - 1) % Mod)

\* highest = min( highest, range.second ): line 388.
TightenHighest(high, second) == Min(high, second)

\* A faulty variant of Bisect: a quarter of the gap instead of half of it.
BisectQuarter(first, second) == (first + ((second - first) % Mod) \div 4) % Mod

\* range.second = range.first + (range.second-range.first)/2: line 389, on size_t.
Bisect(first, second) == (first + ((second - first) % Mod) \div 2) % Mod

\* cfg.max_char_height = range.first: line 392.
CommittedHeight(r) == r.first

\* if( cfg.auto_height ), lines 373-375.
EnterAutoHeight ==
    /\ pc = "run"
    /\ cfg.auto_height
    /\ highest' = (cfg.tex_dims.height + 1) % Mod
    /\ range' = [first |-> 0, second |-> cfg.max_char_height]
    /\ pc' = "loop"
    /\ UNCHANGED <<cfg, font, memo, lastRects, requested, out>>

SkipAutoHeight ==
    /\ pc = "run"
    /\ ~cfg.auto_height
    /\ pc' = "final"
    /\ UNCHANGED <<cfg, font, range, highest, memo, lastRects, requested, out>>

\* One pass of the while loop whose build_atlas succeeds: lines 377-386.
ProbeSucceeds ==
    /\ pc = "loop"
    /\ range.first # range.second
    /\ LET height == ProbedHeight(range)
           rects  == Placerefs(build_charset(height))
       IN  /\ TRUE \in PackOutcomes(rects)
           /\ cfg' = [cfg EXCEPT !.max_char_height = height]
           /\ memo' = Answered(height, rects, TRUE)
           /\ lastRects' = rects
           /\ range' = [first |-> range.second, second |-> GrowHigh(range.second, highest)]
    /\ UNCHANGED <<font, pc, highest, requested, out>>

\* One pass of the while loop whose build_atlas fails: lines 377-384, 387-390.
ProbeFails ==
    /\ pc = "loop"
    /\ range.first # range.second
    /\ LET height == ProbedHeight(range)
           rects  == Placerefs(build_charset(height))
       IN  /\ FALSE \in PackOutcomes(rects)
           /\ cfg' = [cfg EXCEPT !.max_char_height = height]
           /\ memo' = Answered(height, rects, FALSE)
           /\ lastRects' = rects
           /\ highest' = TightenHighest(highest, range.second)
           /\ range' = [range EXCEPT !.second = Bisect(range.first, range.second)]
    /\ UNCHANGED <<font, pc, requested, out>>

\* The loop ends: line 392.
CommitHeight ==
    /\ pc = "loop"
    /\ range.first = range.second
    /\ cfg' = [cfg EXCEPT !.max_char_height = CommittedHeight(range)]
    /\ pc' = "final"
    /\ UNCHANGED <<font, range, highest, memo, lastRects, requested, out>>

\* The final build_atlas fails: lines 397-405.
FinalRunFails ==
    /\ pc = "final"
    /\ LET rects == Placerefs(build_charset(cfg.max_char_height))
       IN  /\ FALSE \in PackOutcomes(rects)
           /\ memo' = Answered(cfg.max_char_height, rects, FALSE)
           /\ lastRects' = rects
    /\ out' = [out EXCEPT !.error = TRUE]
    /\ pc' = "done"
    /\ UNCHANGED <<cfg, font, range, highest, requested>>

\* The final build_atlas succeeds on a non-empty character set:
\* lines 397-402, 407-408.
FinalRunWrites ==
    /\ pc = "final"
    /\ LET charinfos == build_charset(cfg.max_char_height)
           rects     == Placerefs(charinfos)
       IN  /\ charinfos # << >>
           /\ TRUE \in PackOutcomes(rects)
           /\ memo' = Answered(cfg.max_char_height, rects, TRUE)
           /\ lastRects' = rects
           /\ out' = [out EXCEPT !.desc = "written",
                                 !.description = write_description(charinfos),
                                 !.image = TRUE]
    /\ pc' = "done"
    /\ UNCHANGED <<cfg, font, range, highest, requested>>

\* The final build_atlas succeeds on an empty character set. write_description
\* has opened (and truncated) the description file when it dereferences
\* max_element's result, which is charinfos.end(): lines 120, 127-128, 141-142.
\* That read is undefined: the process either dies there, leaving the
\* description file created and no image, or reads some value and goes on,
\* writing no span, no entry and last_written+1 = 1, and then the image.
FinalRunEmpty ==
    /\ pc = "final"
    /\ LET charinfos == build_charset(cfg.max_char_height)
           rects     == Placerefs(charinfos)
       IN  /\ charinfos = << >>
           /\ TRUE \in PackOutcomes(rects)
           /\ memo' = Answered(cfg.max_char_height, rects, TRUE)
           /\ lastRects' = rects
    /\ \E survives \in BOOLEAN :
          out' = IF survives
                 THEN [out EXCEPT !.desc = "written",
                                  !.description = [NoDescription EXCEPT
                                       !.bitmap_chars_count = CharsCount(0)],
                                  !.image = TRUE]
                 ELSE [out EXCEPT !.desc = "truncated", !.crashed = TRUE]
    /\ pc' = "done"
    /\ UNCHANGED <<cfg, font, range, highest, requested>>

Next ==
    \/ EnterAutoHeight
    \/ SkipAutoHeight
    \/ ProbeSucceeds
    \/ ProbeFails
    \/ CommitHeight
    \/ FinalRunFails
    \/ FinalRunWrites
    \/ FinalRunEmpty

----------------------------------------------------------------------------
(* Initial states: parse_options has filled cfg, main has opened the font. *)

FullRange == [begin |-> 0, end |-> MaxCodepoint + 1]

\* half-open ranges [begin, end) within the codepoints
Ranges == {[begin |-> b, end |-> e] : b \in 0..MaxCodepoint, e \in 1..(MaxCodepoint + 1)}
           \cap {r \in [begin : 0..MaxCodepoint, end : 1..(MaxCodepoint + 1)] : r.begin < r.end}

\* lists of at most two ranges, in any order, overlapping or not
RangeLists == {<< >>} \cup {<< r >> : r \in Ranges}
                 \cup {<< r, q >> : r \in Ranges, q \in Ranges}

Settings(ranges, texw, texh, spans, height, auto, spacing, smooth) ==
    [codepoint_ranges |-> ranges,
     tex_dims         |-> [width |-> texw, height |-> texh],
     use_spans        |-> spans,
     max_char_height  |-> height,
     auto_height      |-> auto,
     spacing          |-> spacing,
     smoothpixels     |-> smooth]

NoOutput == [error |-> FALSE, desc |-> "none", description |-> NoDescription,
             image |-> FALSE, crashed |-> FALSE]

Start ==
    /\ pc = "run"
    /\ range = [first |-> 0, second |-> 0]
    /\ highest = 0
    /\ memo = {}
    /\ lastRects = << >>
    /\ requested = cfg.max_char_height
    /\ out = NoOutput

\* Runs over every requested height and every texture of at least one texel,
\* for a few fonts.
RunFonts == {FontOf({}, {}), FontOf({0}, {}), FontOf({1}, {}), FontOf({0, 1}, {})}

Init ==
    /\ font \in RunFonts
    /\ cfg \in {Settings(<< FullRange >>, tw, th, sp, h, a, s, b) :
                  tw \in 1..MaxDim, th \in 1..MaxDim, sp \in BOOLEAN,
                  h \in 0..MaxDim, a \in BOOLEAN, s \in 0..1, b \in 0..1}
    /\ Start

Spec == Init /\ [][Next]_vars

\* Runs over every list of ranges and every font, for a few sizes.
InitDesc ==
    /\ font \in {FontOf(p, b) : p \in SUBSET Codepoints, b \in SUBSET {0}}
    /\ cfg \in {Settings(rs, t, t, sp, 2, a, 0, 0) :
                  rs \in RangeLists, t \in {1, MaxDim}, sp \in BOOLEAN,
                  a \in BOOLEAN}
    /\ Start

SpecDesc == InitDesc /\ [][Next]_vars

\* The search loop up to the largest size_t values. run() is sequential: a
\* step that can be taken is taken. Heights above MaxDim are tried on the
\* empty character set only, where build_charset converts no extent to int.
EmptyFont == FontOf({}, {})

InitLoop ==
    /\ \/ /\ font = EmptyFont
          /\ cfg \in {Settings(<< FullRange >>, MaxDim, th, FALSE, h, a, 0, 0) :
                        th \in 0..(Mod - 1), h \in 0..(Mod - 1), a \in BOOLEAN}
       \/ /\ font = FontOf({0}, {})
          /\ cfg \in {Settings(<< FullRange >>, MaxDim, th, FALSE, h, a, 0, 0) :
                        th \in 0..MaxDim, h \in 0..MaxDim, a \in BOOLEAN}
    /\ Start

SpecLoop == InitLoop /\ [][Next]_vars /\ WF_vars(Next)

----------------------------------------------------------------------------
(* Claims                                                                  *)

\* run() has come to its end under auto-height.
AutoDone == pc = "done" /\ cfg.auto_height

\* The height the final run was made at.
Committed == cfg.max_char_height

\* A probe or the final run packed at height h.
PackedAt(h) == \E m \in memo : m.height = h /\ m.ok

\* In every memo, no height packs above one that fails.
MonotoneOracle == \A m, n \in memo : (m.ok /\ ~n.ok) => m.height < n.height

NothingAboveTexturePacks == \A m \in memo : m.ok => m.height <= cfg.tex_dims.height

\* Packing at height h must fail: the packer can only answer false there, or
\* (monotone oracle) it has failed at a height not above h, or h is above the
\* texture height.
MustFailAt(h) ==
    \/ h > cfg.tex_dims.height
    \/ \E m \in memo : ~m.ok /\ m.height <= h
    \/ PackOutcomes(Placerefs(build_charset(h))) = {FALSE}

\* C1, as claimed: under auto-height the final run at the committed height
\* packs successfully, also when that height is 0. Stated for the runs asked
\* for a height of at least 1, where the loop probes at least once.
C1_CommittedHeightPacks == (AutoDone /\ requested >= 1) => ~out.error

\* C1, amended: a committed height of at least 1 is one a probe packed at,
\* and the final run packs at it.
C1_ProbedHeightPacks ==
    (AutoDone /\ Committed >= 1) =>
        /\ ~out.error
        /\ \E m \in memo : m.height = Committed /\ m.ok /\ m.rects = lastRects

C1_Witness ==
    /\ AutoDone /\ Committed >= 1 /\ lastRects # << >>
    /\ out.desc = "written" /\ out.image
    /\ \E m \in memo : ~m.ok

C3_SearchTerminates == <>(pc # "run" /\ pc # "loop")

\* C4: run() ends with the packing error and no artifact, or with no error
\* and both artifacts written.
C4_BothArtifactsOrNone ==
    pc = "done" =>
        IF out.error THEN out.desc = "none" /\ ~out.image
        ELSE out.desc = "written" /\ out.image

\* C7: every rectangle handed to bin_pack_max_rect is wider and higher than
\* 2*smoothpixels. Stated for the runs asked for a height of at least 1.
C7_RectsExceedBorder ==
    requested >= 1 =>
        \A i \in 1..Len(lastRects) :
            /\ lastRects[i].w > 2 * cfg.smoothpixels
            /\ lastRects[i].h > 2 * cfg.smoothpixels

\* C8: with a non-empty glyph set, when no height from 1 on packs and the
\* search ends at 0, run() ends with the packing error and nothing written.
C8_NothingPacksIsAnError ==
    (/\ AutoDone /\ read_shapes # << >> /\ Committed = 0 /\ requested >= 1
     /\ \A h \in 1..(Mod - 1) : PackOutcomes(Placerefs(build_charset(h))) = {FALSE})
    => (out.error /\ out.desc = "none" /\ ~out.image)

\* C10, as claimed: no height probed or committed under auto-height exceeds
\* the requested maximum.
C10_WithinRequested == cfg.max_char_height <= requested

\* C10, amended: the committed height is at most the texture height, and
\* every height probed at most the larger of the requested maximum and the
\* texture height.
C10_WithinTexture ==
    /\ (cfg.auto_height /\ pc \in {"final", "done"}) => Committed <= cfg.tex_dims.height
    /\ cfg.max_char_height <= Max(requested, cfg.tex_dims.height)

C10_Witness ==
    /\ AutoDone /\ lastRects # << >> /\ ~out.error
    /\ Committed > requested /\ requested >= 1
    /\ Cardinality({m.height : m \in memo}) >= 3

----------------------------------------------------------------------------
(* Claims about the description file                                       *)

\* The codepoints read_shapes retains.
Retained == {read_shapes[i].codepoint : i \in 1..Len(read_shapes)}

UniqueCodepoints == Cardinality(Retained) = Len(read_shapes)

MaxRetained == CHOOSE c \in Retained : \A d \in Retained : d <= c

\* The char_info of codepoint c in the final run.
InfoOf(c) ==
    LET charinfos == build_charset(cfg.max_char_height)
    IN  charinfos[CHOOSE i \in 1..Len(charinfos) : charinfos[i].codepoint = c]

\* write_description has written the file of a non-empty character set.
DescWritten == pc = "done" /\ out.desc = "written" /\ read_shapes # << >>

\* C5: in DENSE mode font_codepoint_infos has one entry per codepoint from 0
\* to the largest retained one, the entry at index k being that of codepoint
\* k when k is retained and the placeholder otherwise.
C5_DenseIndexIsCodepoint ==
    (DescWritten /\ ~cfg.use_spans) =>
        LET entries == out.description.entries
        IN  /\ Len(entries) = MaxRetained + 1
            /\ \A k \in 0..MaxRetained :
                  entries[k + 1] = IF k \in Retained THEN GlyphEntry(InfoOf(k))
                                   ELSE Placeholder

\* C6: bitmap_chars_count is the number of entries of font_codepoint_infos.
C6_CountIsEntries ==
    DescWritten => out.description.bitmap_chars_count = Len(out.description.entries)

\* C9: in SPAN mode with unique codepoints the cumulative offsets start at 0,
\* strictly increase, and the index ranges [cumulative, cumulative + (end -
\* start)) follow one another from 0 to the number of entries; the entry of
\* codepoint c of a span is at index cumulative + (c - start), and every
\* retained codepoint is in a span.
C9_SpansPartitionEntries ==
    (DescWritten /\ cfg.use_spans /\ UniqueCodepoints) =>
        LET spans   == out.description.spans
            entries == out.description.entries
            size(i) == spans[i].end - spans[i].start
        IN  /\ Len(spans) >= 1
            /\ spans[1].cumulative = 0
            /\ \A i \in 1..(Len(spans) - 1) :
                  /\ spans[i + 1].cumulative > spans[i].cumulative
                  /\ spans[i + 1].cumulative = spans[i].cumulative + size(i)
            /\ spans[Len(spans)].cumulative + size(Len(spans)) = Len(entries)
            /\ \A i \in 1..Len(spans) : \A c \in spans[i].start..(spans[i].end - 1) :
                  /\ c \in Retained
                  /\ entries[spans[i].cumulative + (c - spans[i].start) + 1]
                        = GlyphEntry(InfoOf(c))
            /\ \A c \in Retained : \E i \in 1..Len(spans) :
                  spans[i].start <= c /\ c < spans[i].end

\* Two spans, the first of two codepoints, from ranges given in descending
\* order.
C9_Witness ==
    /\ DescWritten /\ cfg.use_spans /\ UniqueCodepoints
    /\ Len(out.description.spans) >= 2
    /\ out.description.spans[1].end - out.description.spans[1].start >= 2
    /\ Len(read_shapes) >= 2
    /\ read_shapes[1].codepoint > read_shapes[2].codepoint

====
